---- MODULE Spec2Model ----
(***************************************************************************)
(* CanvasMD (src/canvasmd.py): the terminal menu engine (UI.display_menu)  *)
(* and the three-stage file submission (CanvasAPI.submit_file_assignment,  *)
(* driven by CanvasApp.upload_file).                                       *)
(***************************************************************************)
EXTENDS Integers, Sequences, FiniteSets, TLC

\* ------------------------------------------------------------------------
\* Bounds of the model
\* ------------------------------------------------------------------------
MaxItems == 3          \* longest item list handed to display_menu directly
MaxSel == 3            \* longest explicit selectable_indices list
MaxAssignments == 3    \* most assignments shown by display_assignments
MaxAttempts == 2       \* invocations of upload_file in one behaviour
MaxListed == 3         \* most assignments in one course listing
MaxTime == 2           \* instants run over 0..MaxTime (hours, UTC)
MaxSubmitted == 1      \* most assignments one bulk lookup reports submitted
MaxCourses == 3        \* most courses get_courses returns
MaxVisits == 2         \* times the course menu is left for a sub-screen
MaxNames == 2          \* entry names per directory: 1..MaxNames, in
                       \* lexicographic order

\* ------------------------------------------------------------------------
\* Program constants
\* ------------------------------------------------------------------------
USER_TIMEZONE_OFFSET == 0 - 6

\* ------------------------------------------------------------------------
\* Small helpers
\* ------------------------------------------------------------------------
SetMin(S) == CHOOSE m \in S : \A x \in S : m <= x

SeqRange(s) == {s[k] : k \in 1..Len(s)}

\* Python's range(a, b) as a list
range(a, b) == [k \in 1..(IF b > a THEN b - a ELSE 0) |-> a + k - 1]

\* all lists over S with at most n elements
SeqsUpTo(S, n) == UNION {[1..k -> S] : k \in 0..n}

\* Python's Optional values: None is <<>>, a value v is <<v>>
None == <<>>
Some(i) == <<i>>

\* a menu label; assignment rows carry the assignment's position
Label(text) == <<text, 0>>

\* ------------------------------------------------------------------------
\* State
\* ------------------------------------------------------------------------
VARIABLES
    menu_pc,              \* "idle" | "loop" (inside display_menu) | "returned"
    items,                \* display_menu: items
    selectable_indices,   \* display_menu: selectable_indices after line 211
    current_row,          \* display_menu: current_row
    key,                  \* display_menu: the last key read by getch
    menu_ret              \* display_menu: the value returned (None or Some(i))

menu_vars == <<menu_pc, items, selectable_indices, current_row, key, menu_ret>>

VARIABLES
    confirm_submit,   \* Settings.confirm_submit
    up_pc,            \* position inside CanvasApp.upload_file and the
                      \* submit_file_assignment it calls: "idle" | "browser" |
                      \* "confirm" | "stage1" | "stage2" | "stage3" |
                      \* "error" (dismissable error message) | "done"
    file_path,        \* upload_file: file_path (None or Some(name))
    prompted,         \* confirm_dialog was shown in this upload_file call
    shown,            \* title of the last screen drawn by upload_file
    dialog_key,       \* confirm_dialog / show_dismissable_message: key
    requests,         \* HTTP requests issued in this upload_file call
    resp1,            \* what the server did with the stage-1 request
    resp2,            \* ... the stage-2 upload
    resp3,            \* ... the stage-3 registration
    result,           \* value returned by submit_file_assignment
    attempts          \* calls of upload_file so far

upload_vars ==
    <<confirm_submit, up_pc, file_path, prompted, shown, dialog_key, requests,
      resp1, resp2, resp3, result, attempts>>

VARIABLES
    ga_pc,            \* get_assignments: "idle" | "returned"
    ga_listing,       \* the course's assignments as the server lists them
                      \* (None when the listing request failed)
    ga_submissions,   \* ids the bulk lookup reports as submitted (None when
                      \* the lookup failed)
    current_time,     \* get_assignments: current_time (an instant)
    ga_ret            \* the list get_assignments returned

assign_vars == <<ga_pc, ga_listing, ga_submissions, current_time, ga_ret>>

VARIABLES
    cm_pc,            \* canvas_menu: "idle" | "menu" (inside
                      \* display_menu_with_horizontal_options) | "settings" |
                      \* "assignments" | "returned" | "crashed"
    courses,          \* canvas_menu: number of courses listed
    h_row,            \* display_menu_with_horizontal_options: current_row
    h_col,            \* ... current_col
    h_key,            \* ... the last key read by getch
    h_ret,            \* ... the value it returned last
    visits            \* sub-screens opened from the course menu so far

course_vars == <<cm_pc, courses, h_row, h_col, h_key, h_ret, visits>>

VARIABLES
    fs,                 \* the filesystem: kind of every path
    fb_pc,              \* file_browser: "idle" | "loop" | "returned" |
                        \* "raised" (an exception left the loop)
    current_path,       \* file_browser: current_path
    current_selection,  \* file_browser: current_selection
    fb_items,           \* file_browser: items, as listed at the last redraw
    fb_key,             \* file_browser: the last key read by getch
    fb_ret              \* file_browser: the value returned

browser_vars ==
    <<fs, fb_pc, current_path, current_selection, fb_items, fb_key, fb_ret>>

VARIABLES
    app_pc,        \* where CanvasApp.run is: "start" | "settings" |
                   \* "courses" | "assignments" | "details" | "exited" |
                   \* "crashed" (an exception left run)
    sm_from,       \* caller of the running settings_menu: "run" | "courses"
    logged_in,     \* CanvasApp.logged_in
    api,           \* CanvasApp.api: None or Some(access_token)
    username,      \* CanvasApp.username
    env_token,     \* os.environ['ACCESS_TOKEN']: None or Some(text)
    notice,        \* title of the last message screen shown
    entered,       \* the token of the last save_token call
    checked,       \* the last check_token_validity: "none" | "valid" |
                   \* "invalid"
    event          \* the last event handled

session_vars ==
    <<app_pc, sm_from, logged_in, api, username, env_token, notice, entered,
      checked, event>>

VARIABLES
    da_pc,                \* display_assignments: "idle" | "menu" (inside
                          \* display_menu) | "details" | "returned" |
                          \* "crashed" (IndexError)
    not_submitted,        \* display_assignments: not_submitted
    submitted,            \* display_assignments: submitted
    selected_assignment   \* display_assignments: selected_assignment

list_vars == <<da_pc, not_submitted, submitted, selected_assignment>>

\* what each component leaves alone
other_than_menu ==
    <<upload_vars, assign_vars, course_vars, browser_vars, session_vars,
      list_vars>>
other_than_upload ==
    <<menu_vars, assign_vars, course_vars, browser_vars, session_vars,
      list_vars>>
other_than_assign ==
    <<menu_vars, upload_vars, course_vars, browser_vars, session_vars,
      list_vars>>
other_than_course ==
    <<menu_vars, upload_vars, assign_vars, browser_vars, session_vars,
      list_vars>>
other_than_browser ==
    <<menu_vars, upload_vars, assign_vars, course_vars, session_vars,
      list_vars>>
other_than_session ==
    <<menu_vars, upload_vars, assign_vars, course_vars, browser_vars,
      list_vars>>
other_than_session_and_settings ==
    <<menu_vars, assign_vars, course_vars, browser_vars, list_vars>>
other_than_list_and_menu ==
    <<upload_vars, assign_vars, course_vars, browser_vars, session_vars>>

\* ------------------------------------------------------------------------
\* UI._get_next_selectable / UI._get_previous_selectable
\* ------------------------------------------------------------------------
\* a variant that wraps round to the first entry past the last one
get_next_selectable_wrap(current, selectable) ==
    LET hits == {k \in 1..Len(selectable) : selectable[k] > current}
    IN  IF hits = {} THEN (IF Len(selectable) > 0 THEN selectable[1] ELSE current)
        ELSE selectable[SetMin(hits)]

\* a variant that steps to the next row whether or not it is selectable
get_next_selectable_row(current, selectable) ==
    LET hits == {k \in 1..Len(selectable) : selectable[k] > current}
    IN  IF hits = {} THEN current ELSE current + 1

get_next_selectable(current, selectable) ==
    LET hits == {k \in 1..Len(selectable) : selectable[k] > current}
    IN  IF hits = {} THEN current ELSE selectable[SetMin(hits)]

\* a variant that scans the list forwards instead of reversed
get_previous_selectable_forward(current, selectable) ==
    LET hits == {k \in 1..Len(selectable) : selectable[k] < current}
    IN  IF hits = {} THEN current ELSE selectable[SetMin(hits)]

\* reversed(selectable): the last position that matches comes first
get_previous_selectable(current, selectable) ==
    LET hits == {k \in 1..Len(selectable) : selectable[k] < current}
    IN  IF hits = {} THEN current
        ELSE selectable[CHOOSE k \in hits : \A j \in hits : j <= k]

\* ------------------------------------------------------------------------
\* UI.display_menu
\* ------------------------------------------------------------------------
\* lines 210-211: selectable_indices defaults to every index
DefaultSelectable(its, sel) ==
    IF sel = None THEN range(0, Len(its)) ELSE sel[1]

\* line 213
InitialRow(sel) == IF Len(sel) > 0 THEN SetMin(SeqRange(sel)) ELSE 0

\* entry of display_menu(its, title, content, sel); sel is None when the
\* argument is omitted and Some(list) otherwise
display_menu(its, sel) ==
    /\ menu_pc \in {"idle", "returned"}
    /\ menu_pc' = "loop"
    /\ items' = its
    /\ selectable_indices' = DefaultSelectable(its, sel)
    /\ current_row' = InitialRow(DefaultSelectable(its, sel))
    /\ key' = "none"
    /\ menu_ret' = None

\* the menus the application builds ---------------------------------------
SettingsItems ==
    <<Label("Save Token"), Label("Toggle Confirmation Prompt"),
      Label("Logout"), Label("[ Go Back ]")>>

DetailsItems == <<Label("Upload Local File"), Label("[ Go Back ]")>>

\* display_assignments, lines 550-555, for ns not-submitted and s submitted
AssignmentItems(ns, s) ==
    <<Label("NOT SUBMITTED")>> \o [k \in 1..ns |-> <<"assignment", k>>]
    \o <<Label("SUBMITTED")>> \o [k \in 1..s |-> <<"assignment", ns + k>>]
    \o <<Label("[ Go Back ]")>>

AssignmentSelectable(ns, s) ==
    range(1, ns + 1) \o range(ns + 2, Len(AssignmentItems(ns, s)))

\* a call of display_menu from settings_menu, display_assignment_details
\* or display_assignments (which returns early on an empty assignment list)
DisplayMenuFromApp ==
    \/ display_menu(SettingsItems, None)
    \/ display_menu(DetailsItems, None)
    \/ \E ns \in 0..MaxAssignments, s \in 0..MaxAssignments :
          /\ ns + s >= 1
          /\ ns + s <= MaxAssignments
          /\ display_menu(AssignmentItems(ns, s),
                          Some(AssignmentSelectable(ns, s)))

\* a call of display_menu with any item list and any list of item positions
GenericItems(n) == [k \in 1..n |-> <<"item", k>>]

DisplayMenuAny ==
    \E n \in 0..MaxItems :
        \/ display_menu(GenericItems(n), None)
        \/ \E sel \in SeqsUpTo(0..(n - 1), MaxSel) :
              display_menu(GenericItems(n), Some(sel))

\* one iteration of the loop, lines 220-228, by the key read ---------------
KeyUp ==
    /\ menu_pc = "loop"
    /\ key' = "KEY_UP"
    /\ current_row' = get_previous_selectable(current_row, selectable_indices)
    /\ UNCHANGED <<menu_pc, items, selectable_indices, menu_ret>>

KeyDown ==
    /\ menu_pc = "loop"
    /\ key' = "KEY_DOWN"
    /\ current_row' = get_next_selectable(current_row, selectable_indices)
    /\ UNCHANGED <<menu_pc, items, selectable_indices, menu_ret>>

\* a variant that returns the row below the cursor
EnterResultBelow(row) == Some(row + 1)

\* line 226: return current_row
EnterResult(row) == Some(row)

KeyEnter ==
    /\ menu_pc = "loop"
    /\ key' = "ENTER"
    /\ menu_pc' = "returned"
    /\ menu_ret' = EnterResult(current_row)
    /\ UNCHANGED <<items, selectable_indices, current_row>>

KeyEsc ==
    /\ menu_pc = "loop"
    /\ key' = "ESC"
    /\ menu_pc' = "returned"
    /\ menu_ret' = None
    /\ UNCHANGED <<items, selectable_indices, current_row>>

\* _draw_menu_items, lines 330-349: how each row is drawn
draw_menu_items(its, row, sel) ==
    [idx \in 0..(Len(its) - 1) |->
        IF idx \notin SeqRange(sel) THEN "header"
        ELSE IF idx = row THEN "highlight" ELSE "normal"]

\* a variant in which an unhandled key moves the cursor down
KeyOtherMoves ==
    /\ menu_pc = "loop"
    /\ key' = "other"
    /\ current_row' = get_next_selectable(current_row, selectable_indices)
    /\ UNCHANGED <<menu_pc, items, selectable_indices, menu_ret>>

\* any other key: no branch of the if/elif chain is taken
KeyOther ==
    /\ menu_pc = "loop"
    /\ key' = "other"
    /\ UNCHANGED <<menu_pc, items, selectable_indices, current_row, menu_ret>>

MenuKey == KeyUp \/ KeyDown \/ KeyEnter \/ KeyEsc \/ KeyOther

MenuInit ==
    /\ menu_pc = "idle"
    /\ items = <<>>
    /\ selectable_indices = <<>>
    /\ current_row = 0
    /\ key = "none"
    /\ menu_ret = None

\* ------------------------------------------------------------------------
\* The HTTP collaborator
\* ------------------------------------------------------------------------
Statuses == {200, 201, 204, 403, 500}

\* str(response.status_code) inside the f-strings of lines 99, 116, 133
StatusText(n) ==
    CASE n = 200 -> "200" [] n = 201 -> "201" [] n = 204 -> "204"
      [] n = 403 -> "403" [] n = 500 -> "500" [] OTHER -> "?"

\* what can come back for a request: a response (status, body) or a raised
\* requests.RequestException (timeout, connection error)
Response(status, body) == [kind |-> "response", status |-> status, body |-> body]
Raised == [kind |-> "exception", status |-> 0, body |-> "timeout"]

\* bodies: JSON with / without the field the stage reads, or not JSON at all
TicketBodies == {"json upload_url", "json no upload_url", "not json"}
UploadBodies == {"json id", "json no id", "not json"}
SubmitBodies == {"json submission", "error page"}

Outcomes(bodies) ==
    {Response(st, b) : st \in Statuses, b \in bodies} \cup {Raised}

\* CanvasAPI._make_request, lines 23-31: raise_for_status turns every 4xx
\* and 5xx answer into the same None as a transport failure
make_request(o) ==
    IF o.kind = "exception" THEN None
    ELSE IF o.status >= 400 /\ o.status < 600 THEN None
    ELSE Some(o)

\* truth value of an Optional[requests.Response]: None is false, and a
\* Response is true exactly when it is ok (status below 400)
Truthy(response) == response # None /\ response[1].status < 400

\* a request through self.session with the bearer header (lines 25-26)
ApiRequest(stage) ==
    [stage |-> stage, via |-> "session", auth |-> TRUE,
     target |-> "API_BASE_URL", payload |-> "params"]

\* a variant of line 113 that goes through the authenticated session
UploadRequestViaSession ==
    [stage |-> 2, via |-> "session", auth |-> TRUE,
     target |-> "upload_url", payload |-> "upload_params"]

\* the bare requests.post of line 113: the ticket's URL and parameters,
\* no headers, not the session
UploadRequest ==
    [stage |-> 2, via |-> "requests.post", auth |-> FALSE,
     target |-> "upload_url", payload |-> "upload_params"]

\* ------------------------------------------------------------------------
\* CanvasAPI.submit_file_assignment: the checks between the stages
\* ------------------------------------------------------------------------
Msg(tag, status, response) == [tag |-> tag, status |-> status, response |-> response]

\* `response.status_code if response else 'N/A'`
StatusOrNA(response) ==
    IF Truthy(response) THEN StatusText(response[1].status) ELSE "N/A"

\* `response.text if response else 'No response'`
TextOrNoResponse(response) ==
    IF Truthy(response) THEN response[1].body ELSE "No response"

\* line 98
TicketFailed(response) == ~Truthy(response) \/ response[1].status # 200

\* a variant of line 105 that never rejects the ticket
NoUploadUrlNever(body) == FALSE

\* line 105: `not upload_url`
NoUploadUrl(body) == body # "json upload_url"

\* a variant of line 115 that only rejects error statuses
UploadFailedErrorsOnly(status) == status >= 400

\* line 115
UploadFailed(status) == status # 201

\* line 120: `not file_id`
NoFileId(body) == body # "json id"

\* a variant of line 132 that accepts any answer
RegisterFailedMissing(response) == ~Truthy(response)

\* line 132
RegisterFailed(response) == ~Truthy(response) \/ response[1].status # 201

SuccessMessage == Msg("File uploaded and assignment submitted successfully!", "", "")

\* line 138: the catch-all of the try block
ErrorMessage(e) == Msg("An error occurred during file submission", "", e)

\* ------------------------------------------------------------------------
\* CanvasApp.upload_file (with Settings and UI.confirm_dialog)
\* ------------------------------------------------------------------------
Files == {"report.pdf", "data.bin"}

UploadInit ==
    /\ confirm_submit \in BOOLEAN      \* Settings.__init__ + load_settings
    /\ up_pc = "idle"
    /\ file_path = None
    /\ prompted = FALSE
    /\ shown = "none"
    /\ dialog_key = "none"
    /\ requests = <<>>
    /\ resp1 = None
    /\ resp2 = None
    /\ resp3 = None
    /\ result = None
    /\ attempts = 0

\* settings_menu, choice 1 (lines 660-664), between two uploads
ToggleConfirmation ==
    /\ up_pc \in {"idle", "done"}
    /\ confirm_submit' = ~confirm_submit
    /\ shown' = "Settings Updated"
    /\ UNCHANGED <<up_pc, file_path, prompted, dialog_key, requests, resp1, resp2, resp3,
                   result, attempts>>

\* display_assignment_details calls upload_file, which opens the file browser
upload_file ==
    /\ up_pc \in {"idle", "done"}
    /\ attempts < MaxAttempts
    /\ attempts' = attempts + 1
    /\ up_pc' = "browser"
    /\ file_path' = None
    /\ prompted' = FALSE
    /\ shown' = "File Browser"
    /\ dialog_key' = "none"
    /\ requests' = <<>>
    /\ resp1' = None
    /\ resp2' = None
    /\ resp3' = None
    /\ result' = None
    /\ UNCHANGED confirm_submit

\* a variant of line 593 that always asks
ConfirmGateAlways(confirm) == TRUE

\* a variant of line 593 that never asks
ConfirmGateNever(confirm) == FALSE

\* line 593: `if self.settings.confirm_submit`
ConfirmGate(confirm) == confirm

\* lines 589-605: file_browser returns None (cancel) or a path
FileBrowserReturn ==
    /\ up_pc = "browser"
    /\ \E chosen \in {None} \cup {Some(f) : f \in Files} :
          /\ file_path' = chosen
          /\ IF chosen = None
             THEN /\ up_pc' = "done"
                  /\ UNCHANGED <<prompted, shown>>
             ELSE IF ConfirmGate(confirm_submit)
             THEN /\ up_pc' = "confirm"
                  /\ prompted' = TRUE
                  /\ shown' = "Confirm"
             ELSE /\ up_pc' = "stage1"
                  /\ shown' = "Upload"
                  /\ UNCHANGED prompted
    /\ UNCHANGED <<confirm_submit, dialog_key, requests, resp1, resp2, resp3,
                   result, attempts>>

\* confirm_dialog, lines 459-463, then lines 600-605
ConfirmEnter ==
    /\ up_pc = "confirm"
    /\ dialog_key' = "ENTER"
    /\ up_pc' = "stage1"
    /\ shown' = "Upload"
    /\ UNCHANGED <<confirm_submit, file_path, prompted, requests, resp1, resp2,
                   resp3, result, attempts>>

ConfirmEsc ==
    /\ up_pc = "confirm"
    /\ dialog_key' = "ESC"
    /\ up_pc' = "done"
    /\ shown' = "Notice"
    /\ UNCHANGED <<confirm_submit, file_path, prompted, requests, resp1, resp2,
                   resp3, result, attempts>>

\* any other key redraws the dialog
ConfirmOther ==
    /\ up_pc = "confirm"
    /\ dialog_key' = "other"
    /\ shown' = "Confirm"
    /\ UNCHANGED <<confirm_submit, up_pc, file_path, prompted, requests, resp1,
                   resp2, resp3, result, attempts>>

\* a variant that starts over from stage 1 after a failure
ReturnRetry(success, message) ==
    /\ result' = Some([success |-> success, message |-> message])
    /\ IF success
       THEN up_pc' = "done" /\ shown' = "Success"
       ELSE up_pc' = "stage1" /\ shown' = "Error"

\* a variant without the try/except of lines 90 and 137: a failure leaves
\* submit_file_assignment as an exception and nothing is returned
ReturnRaise(success, message) ==
    IF success
    THEN /\ result' = Some([success |-> success, message |-> message])
         /\ up_pc' = "done" /\ shown' = "Success"
    ELSE /\ result' = result
         /\ up_pc' = "crashed" /\ shown' = "Traceback"

\* submit_file_assignment returns (success, message) and upload_file shows
\* it: lines 612-618
Return(success, message) ==
    /\ result' = Some([success |-> success, message |-> message])
    /\ IF success
       THEN up_pc' = "done" /\ shown' = "Success"
       ELSE up_pc' = "error" /\ shown' = "Error"

\* lines 91-106
Stage1 ==
    /\ up_pc = "stage1"
    /\ \/ \* os.path.getsize raises: the file vanished after it was chosen
          /\ Return(FALSE, ErrorMessage("getsize"))
          /\ UNCHANGED <<requests, resp1>>
       \/ \E o \in Outcomes(TicketBodies) :
             LET response == make_request(o) IN
             /\ requests' = Append(requests, ApiRequest(1))
             /\ resp1' = Some(o)
             /\ IF TicketFailed(response)
                THEN Return(FALSE, Msg("Failed to get upload URL",
                                       StatusOrNA(response),
                                       TextOrNoResponse(response)))
                ELSE IF response[1].body = "not json"
                THEN Return(FALSE, ErrorMessage("json"))
                ELSE IF NoUploadUrl(response[1].body)
                THEN Return(FALSE, Msg("Upload URL not found in response",
                                       "", response[1].body))
                ELSE up_pc' = "stage2" /\ UNCHANGED <<result, shown>>
    /\ UNCHANGED <<confirm_submit, file_path, prompted, dialog_key, resp2, resp3,
                   attempts>>

\* lines 108-121
Stage2 ==
    /\ up_pc = "stage2"
    /\ \/ \* open(file_path, 'rb') raises: unreadable file
          /\ Return(FALSE, ErrorMessage("open"))
          /\ UNCHANGED <<requests, resp2>>
       \/ \E o \in Outcomes(UploadBodies) :
             /\ requests' = Append(requests, UploadRequest)
             /\ resp2' = Some(o)
             /\ IF o.kind = "exception"
                THEN Return(FALSE, ErrorMessage(o.body))
                ELSE IF UploadFailed(o.status)
                THEN Return(FALSE, Msg("File upload failed",
                                       StatusText(o.status), o.body))
                ELSE IF o.body = "not json"
                THEN Return(FALSE, ErrorMessage("json"))
                ELSE IF NoFileId(o.body)
                THEN Return(FALSE, Msg("File ID not found in upload response",
                                       "", o.body))
                ELSE up_pc' = "stage3" /\ UNCHANGED <<result, shown>>
    /\ UNCHANGED <<confirm_submit, file_path, prompted, dialog_key, resp1, resp3,
                   attempts>>

\* lines 123-135
Stage3 ==
    /\ up_pc = "stage3"
    /\ \E o \in Outcomes(SubmitBodies) :
          LET submit_response == make_request(o) IN
          /\ requests' = Append(requests, ApiRequest(3))
          /\ resp3' = Some(o)
          /\ IF RegisterFailed(submit_response)
             THEN Return(FALSE, Msg("Assignment submission failed",
                                    StatusOrNA(submit_response),
                                    TextOrNoResponse(submit_response)))
             ELSE Return(TRUE, SuccessMessage)
    /\ UNCHANGED <<confirm_submit, file_path, prompted, dialog_key, resp1, resp2,
                   attempts>>

\* show_dismissable_message, lines 380-384: Enter or ESC closes the error,
\* any other key redraws it
DismissError ==
    /\ up_pc = "error"
    /\ \E k \in {"ENTER", "ESC", "other"} :
          /\ dialog_key' = k
          /\ up_pc' = (IF k = "other" THEN "error" ELSE "done")
    /\ UNCHANGED <<confirm_submit, file_path, prompted, shown, requests, resp1,
                   resp2, resp3, result, attempts>>

\* ------------------------------------------------------------------------
\* CanvasAPI.get_assignments (with parse_date)
\* ------------------------------------------------------------------------
\* the due_at field of an assignment: null, a "%Y-%m-%dT%H:%M:%SZ" string
\* for the UTC instant t, or a string strptime rejects
NullDue == [kind |-> "null", t |-> 0]
BadDue == [kind |-> "bad", t |-> 0]
IsoDue(t) == [kind |-> "iso", t |-> t]

DueValues == {NullDue, BadDue} \cup {IsoDue(t) : t \in 0..MaxTime}

\* an aware datetime: wall-clock reading and the offset of its tzinfo
Aware(wall, off) == [wall |-> wall, off |-> off]

\* the instant an aware datetime denotes; aware datetimes compare by it
Instant(d) == d.wall - d.off

\* datetime.now(timezone(timedelta(hours=USER_TIMEZONE_OFFSET))) at instant t
NowAt(t) == Aware(t + USER_TIMEZONE_OFFSET, USER_TIMEZONE_OFFSET)

\* datetime.max.replace(tzinfo=...), line 70: later than every parsed date
DatetimeMax == Aware(MaxTime + 1000, USER_TIMEZONE_OFFSET)

\* parse_date, lines 73-80: None for null, '' and unparseable strings,
\* otherwise the UTC reading moved to the user's zone
parse_date(due_at) ==
    IF due_at.kind = "iso"
    THEN Some(Aware(due_at.t + USER_TIMEZONE_OFFSET, USER_TIMEZONE_OFFSET))
    ELSE None

\* a variant of line 66 that also keeps what is due exactly now
KeepDueOrNow(due_date, now) ==
    due_date = None \/ Instant(due_date[1]) >= Instant(now)

\* line 66: `due_date is None or due_date > current_time`
KeepDue(due_date, now) ==
    due_date = None \/ Instant(due_date[1]) > Instant(now)

\* line 70: the sort key (no date?, date or datetime.max)
SortKey(a) ==
    LET d == parse_date(a.due_at)
    IN  <<d = None, IF d = None THEN DatetimeMax ELSE d[1]>>

\* tuple comparison of two sort keys: False before True, then by instant
KeyLess(k1, k2) ==
    \/ ~k1[1] /\ k2[1]
    \/ k1[1] = k2[1] /\ Instant(k1[2]) < Instant(k2[2])

\* sorted(): stable, so an element goes behind every element that is not
\* greater than it
RECURSIVE sorted(_)
sorted(list) ==
    IF Len(list) = 0 THEN <<>>
    ELSE LET front == sorted(SubSeq(list, 1, Len(list) - 1))
             x == list[Len(list)]
             n == Cardinality({k \in 1..Len(front) :
                                  ~KeyLess(SortKey(x), SortKey(front[k]))})
         IN  SubSeq(front, 1, n) \o <<x>> \o SubSeq(front, n + 1, Len(front))

\* lines 60-68: the loop over the listed assignments
RECURSIVE filter_assignments(_, _, _)
filter_assignments(list, submitted_ids, now) ==
    IF Len(list) = 0 THEN <<>>
    ELSE LET a == list[1]
             rest == filter_assignments(Tail(list), submitted_ids, now)
         IN  IF a.quiz THEN rest
             ELSE IF KeepDue(parse_date(a.due_at), now)
             THEN <<[a EXCEPT !.submitted = (a.id \in submitted_ids)]>> \o rest
             ELSE rest

\* lines 49-70; a failed listing gives [] and a failed bulk lookup gives {}
get_assignments_result(listing, submissions, now) ==
    IF listing = None THEN <<>>
    ELSE sorted(filter_assignments(
                    listing[1],
                    IF submissions = None THEN {} ELSE submissions[1],
                    now))

\* an assignment as the server lists it
Assignment(id, quiz, due_at) ==
    [id |-> id, quiz |-> quiz, due_at |-> due_at, submitted |-> FALSE]

\* listings of n assignments with ids 1..n
Listings(n) ==
    {[k \in 1..n |-> Assignment(k, q[k], d[k])] :
        q \in [1..n -> BOOLEAN], d \in [1..n -> DueValues]}

\* what the bulk lookup can report for ids 1..n
SubmittedSets(n) == {ids \in SUBSET (1..n) : Cardinality(ids) <= MaxSubmitted}

AssignInit ==
    /\ ga_pc = "idle"
    /\ ga_listing = None
    /\ ga_submissions = None
    /\ current_time = NowAt(0)
    /\ ga_ret = <<>>

\* one call of get_assignments(course_id)
get_assignments ==
    /\ ga_pc = "idle"
    /\ \E now \in 0..MaxTime :
          \/ \* the listing request failed or was not a 200 (lines 51-52)
             /\ ga_listing' = None
             /\ ga_submissions' = None
             /\ current_time' = NowAt(now)
             /\ ga_ret' = get_assignments_result(None, None, NowAt(now))
          \/ \E n \in 0..MaxListed :
                \E listing \in Listings(n) :
                   \E subs \in {None} \cup {Some(ids) : ids \in SubmittedSets(n)} :
                      /\ ga_listing' = Some(listing)
                      /\ ga_submissions' = subs
                      /\ current_time' = NowAt(now)
                      /\ ga_ret' = get_assignments_result(Some(listing), subs,
                                                          NowAt(now))
    /\ ga_pc' = "returned"


\* ------------------------------------------------------------------------
\* UI.display_menu_with_horizontal_options, driven by CanvasApp.canvas_menu
\* ------------------------------------------------------------------------
\* labels are strings, kept as sequences of characters
ExitLabel == <<"[", " ", "E", "x", "i", "t", " ", "]">>
ConfigLabel == <<"[", " ", "C", "o", "n", "f", "i", "g", " ", "]">>

\* line 525
horizontal_options == <<ExitLabel, ConfigLabel>>

\* str.lower() on the characters the labels use
LowerChar(c) == CASE c = "E" -> "e" [] c = "C" -> "c" [] OTHER -> c
lower(str) == [k \in 1..Len(str) |-> LowerChar(str[k])]

\* a variant of line 324 without lower()
action_name_raw(label) == SubSeq(label, 3, Len(label) - 2)

\* line 324: label.lower()[2:-2]
action_name(label) == SubSeq(lower(label), 3, Len(label) - 2)

\* the three shapes of the value returned (Union[int, str, None])
IndexChoice(i) == [kind |-> "int", index |-> i, name |-> <<>>]
NameChoice(n) == [kind |-> "str", index |-> 0 - 1, name |-> n]
NoChoice == [kind |-> "None", index |-> 0 - 1, name |-> <<>>]

\* the guards of lines 314-320
can_move_up(row) == row > 0

\* a variant of line 316 that stops on the last list item
can_move_down_in_list(row, nitems) == row < nitems - 1

can_move_down(row, nitems) == row < nitems
can_move_left(col) == col > 0
can_move_right(col, options) == col < Len(options) - 1

\* _draw_horizontal_options, lines 351-365: how each option is drawn
draw_horizontal_options(options, row, col, num_items) ==
    [idx \in 0..(Len(options) - 1) |->
        IF row = num_items /\ idx = col THEN "highlight" ELSE "normal"]

CourseInit ==
    /\ cm_pc = "idle"
    /\ courses = 0
    /\ h_row = 0
    /\ h_col = 0
    /\ h_key = "none"
    /\ h_ret = NoChoice
    /\ visits = 0

\* lines 304-305: a new call of display_menu_with_horizontal_options
OpenCourseMenu ==
    /\ cm_pc' = "menu"
    /\ h_row' = 0
    /\ h_col' = 0

\* canvas_menu, lines 513-521 (run calls it only when logged in): no
\* courses means a message and a return, otherwise the menu opens
canvas_menu ==
    /\ cm_pc = "idle"
    /\ \E n \in 0..MaxCourses :
          /\ courses' = n
          /\ IF n = 0
             THEN cm_pc' = "returned" /\ UNCHANGED <<h_row, h_col>>
             ELSE OpenCourseMenu
    /\ UNCHANGED <<h_key, h_ret, visits>>

HKeyUp ==
    /\ cm_pc = "menu"
    /\ h_key' = "KEY_UP"
    /\ h_row' = (IF can_move_up(h_row) THEN h_row - 1 ELSE h_row)
    /\ UNCHANGED <<cm_pc, courses, h_col, h_ret, visits>>

HKeyDown ==
    /\ cm_pc = "menu"
    /\ h_key' = "KEY_DOWN"
    /\ h_row' = (IF can_move_down(h_row, courses) THEN h_row + 1 ELSE h_row)
    /\ UNCHANGED <<cm_pc, courses, h_col, h_ret, visits>>

\* lines 318-321: the row the cursor is on is not looked at
HKeyLeft ==
    /\ cm_pc = "menu"
    /\ h_key' = "KEY_LEFT"
    /\ h_col' = (IF can_move_left(h_col) THEN h_col - 1 ELSE h_col)
    /\ UNCHANGED <<cm_pc, courses, h_row, h_ret, visits>>

HKeyRight ==
    /\ cm_pc = "menu"
    /\ h_key' = "KEY_RIGHT"
    /\ h_col' = (IF can_move_right(h_col, horizontal_options)
                 THEN h_col + 1 ELSE h_col)
    /\ UNCHANGED <<cm_pc, courses, h_row, h_ret, visits>>

\* lines 322-326
EnterChoice(row, col, nitems) ==
    IF row = nitems
    THEN NameChoice(action_name(horizontal_options[col + 1]))
    ELSE IndexChoice(row)

\* canvas_menu, lines 533-538, on the value the menu returned
Dispatch(choice) ==
    IF choice = NameChoice(<<"e", "x", "i", "t">>)
    THEN /\ cm_pc' = "returned"
         /\ UNCHANGED <<h_row, h_col, visits>>
    ELSE IF choice = NameChoice(<<"c", "o", "n", "f", "i", "g">>)
    THEN /\ cm_pc' = "settings"
         /\ visits' = visits + 1
         /\ UNCHANGED <<h_row, h_col>>
    ELSE IF choice = NoChoice
    THEN \* no branch matches: the loop opens the menu again
         /\ OpenCourseMenu
         /\ UNCHANGED visits
    ELSE IF choice.kind = "int"
    THEN /\ cm_pc' = "assignments"
         /\ visits' = visits + 1
         /\ UNCHANGED <<h_row, h_col>>
    ELSE \* courses[choice] with a string: TypeError
         /\ cm_pc' = "crashed"
         /\ UNCHANGED <<h_row, h_col, visits>>

\* (the bound is on the sub-screens opened, Exit is always possible)
HKeyEnter ==
    /\ cm_pc = "menu"
    /\ \/ visits < MaxVisits
       \/ EnterChoice(h_row, h_col, courses) = NameChoice(<<"e", "x", "i", "t">>)
    /\ h_key' = "ENTER"
    /\ h_ret' = EnterChoice(h_row, h_col, courses)
    /\ Dispatch(EnterChoice(h_row, h_col, courses))
    /\ UNCHANGED courses

HKeyEsc ==
    /\ cm_pc = "menu"
    /\ h_key' = "ESC"
    /\ h_ret' = NoChoice
    /\ Dispatch(NoChoice)
    /\ UNCHANGED courses

HKeyOther ==
    /\ cm_pc = "menu"
    /\ h_key' = "other"
    /\ UNCHANGED <<cm_pc, courses, h_row, h_col, h_ret, visits>>

\* settings_menu or display_assignments returns and the loop of line 523
\* opens the course menu again
SubScreenReturns ==
    /\ cm_pc \in {"settings", "assignments"}
    /\ OpenCourseMenu
    /\ UNCHANGED <<courses, h_key, h_ret, visits>>


\* ------------------------------------------------------------------------
\* UI.file_browser
\* ------------------------------------------------------------------------
\* A path is the sequence of names below the root ("/" is <<>>); names are
\* 1..MaxNames and compare as strings do in sorted().
Names == 1..MaxNames
Paths == {<<>>} \cup {<<n>> : n \in Names} \cup {<<n, m>> : n, m \in Names}

\* the entry '..' of line 415
DotDot == 0

\* os.path.isdir / os.path.isfile: "other" (socket, dangling link) is neither
KindOf(f, path) == IF path \in DOMAIN f THEN f[path] ELSE "absent"
isdir(f, path) == KindOf(f, path) = "dir"
isfile(f, path) == KindOf(f, path) = "file"

\* os.path.join(current_path, name) and os.path.dirname (the root is its
\* own parent)
join(path, name) == Append(path, name)
dirname(path) == IF Len(path) = 0 THEN path ELSE SubSeq(path, 1, Len(path) - 1)

\* os.listdir
listdir(f, path) == {n \in Names : KindOf(f, join(path, n)) # "absent"}

\* sorted() of a set of names
RECURSIVE sorted_names(_)
sorted_names(S) ==
    IF S = {} THEN <<>>
    ELSE <<SetMin(S)>> \o sorted_names(S \ {SetMin(S)})

\* a variant of lines 415-416 that lists every entry in one sorted run
ListingMixed(f, path) ==
    <<DotDot>> \o sorted_names({n \in listdir(f, path) :
                                  isdir(f, join(path, n)) \/ isfile(f, join(path, n))})

\* lines 415-416: '..', the sorted directories, the sorted files
Listing(f, path) ==
    <<DotDot>>
    \o sorted_names({n \in listdir(f, path) : isdir(f, join(path, n))})
    \o sorted_names({n \in listdir(f, path) : isfile(f, join(path, n))})

\* filesystems: below the root each name is absent, a file, a directory or
\* something else; a directory holds files
MakeFs(top, sub) ==
    [path \in Paths |->
        IF Len(path) = 0 THEN "dir"
        ELSE IF Len(path) = 1 THEN top[path[1]]
        ELSE IF top[path[1]] = "dir" THEN sub[path[1]][path[2]] ELSE "absent"]

Filesystems ==
    {MakeFs(top, sub) :
        top \in [Names -> {"absent", "file", "dir", "other"}],
        sub \in [Names -> [Names -> {"absent", "file"}]]}

EmptyFs == [path \in Paths |-> IF Len(path) = 0 THEN "dir" ELSE "absent"]

BrowserInit ==
    /\ fb_pc = "idle"
    /\ current_path = <<>>
    /\ current_selection = 0
    /\ fb_items = <<>>
    /\ fb_key = "none"
    /\ fb_ret = None

\* lines 407-416: file_browser starts in the working directory and draws
file_browser ==
    /\ fb_pc = "idle"
    /\ \E start \in {path \in Paths : isdir(fs, path)} :
          /\ current_path' = start
          /\ fb_items' = Listing(fs, start)
    /\ fb_pc' = "loop"
    /\ current_selection' = 0
    /\ UNCHANGED <<fs, fb_key, fb_ret>>

\* lines 433-434, then the redraw
BrowserUp ==
    /\ fb_pc = "loop"
    /\ fb_key' = "KEY_UP"
    /\ current_selection' =
          (IF current_selection > 0 THEN current_selection - 1
           ELSE current_selection)
    /\ fb_items' = Listing(fs, current_path)
    /\ UNCHANGED <<fs, fb_pc, current_path, fb_ret>>

\* lines 435-436, then the redraw
BrowserDown ==
    /\ fb_pc = "loop"
    /\ fb_key' = "KEY_DOWN"
    /\ current_selection' =
          (IF current_selection < Len(fb_items) - 1 THEN current_selection + 1
           ELSE current_selection)
    /\ fb_items' = Listing(fs, current_path)
    /\ UNCHANGED <<fs, fb_pc, current_path, fb_ret>>

\* lines 437-448, then the redraw
BrowserEnter ==
    /\ fb_pc = "loop"
    /\ fb_key' = "ENTER"
    /\ IF current_selection = 0
       THEN /\ current_path' = dirname(current_path)
            /\ current_selection' = 0
            /\ fb_items' = Listing(fs, dirname(current_path))
            /\ UNCHANGED <<fb_pc, fb_ret>>
       ELSE IF current_selection >= Len(fb_items)
       THEN \* line 442: items[current_selection] raises IndexError
            /\ fb_pc' = "raised"
            /\ UNCHANGED <<fb_ret, current_path, current_selection, fb_items>>
       ELSE LET selected == fb_items[current_selection + 1]
                selected_path == join(current_path, selected)
            IN  IF isdir(fs, selected_path)
                THEN /\ current_path' = selected_path
                     /\ current_selection' = 0
                     /\ fb_items' = Listing(fs, selected_path)
                     /\ UNCHANGED <<fb_pc, fb_ret>>
                ELSE IF isfile(fs, selected_path)
                THEN /\ fb_pc' = "returned"
                     /\ fb_ret' = Some(selected_path)
                     /\ UNCHANGED <<current_path, current_selection, fb_items>>
                ELSE /\ fb_items' = Listing(fs, current_path)
                     /\ UNCHANGED <<fb_pc, fb_ret, current_path,
                                    current_selection>>
    /\ UNCHANGED fs

\* the filesystem with the kind of one path changed (a removed or replaced
\* directory loses what it held)
set_kind(f, path, kind) ==
    [q \in Paths |->
        IF q = path THEN kind
        ELSE IF Len(q) = 2 /\ Len(path) = 1 /\ q[1] = path[1] /\ kind # "dir"
        THEN "absent"
        ELSE f[q]]

\* another process creates, removes or replaces an entry of the directory
\* being browsed while the browser waits in getch (line 432)
FsChange ==
    /\ fb_pc = "loop"
    /\ \E path \in {join(current_path, n) : n \in Names} \cap Paths,
          kind \in {"absent", "file", "dir", "other"} :
          /\ Len(path) = 2 => kind \in {"absent", "file"}
          /\ fs' = set_kind(fs, path, kind)
          /\ fs' # fs
    /\ UNCHANGED <<fb_pc, current_path, current_selection, fb_items, fb_key,
                   fb_ret>>

\* lines 449-450
BrowserEsc ==
    /\ fb_pc = "loop"
    /\ fb_key' = "ESC"
    /\ fb_pc' = "returned"
    /\ fb_ret' = None
    /\ UNCHANGED <<fs, current_path, current_selection, fb_items>>

\* any other key: only the redraw
BrowserOther ==
    /\ fb_pc = "loop"
    /\ fb_key' = "other"
    /\ fb_items' = Listing(fs, current_path)
    /\ UNCHANGED <<fs, fb_pc, current_path, current_selection, fb_ret>>


\* ------------------------------------------------------------------------
\* CanvasApp: run, the token and the settings menu
\* ------------------------------------------------------------------------
Tokens == {"t1", "t2"}
UserNames == {"", "ana"}

\* bodies of GET users/self
SelfBodies == {"json name", "json no name", "not json"}

\* CanvasAPI.check_token_validity, lines 33-35
check_token_validity(response) ==
    response # None /\ response[1].status = 200

\* CanvasAPI.get_username, lines 37-41: the name, '' or a raised ValueError
\* when a 200 answer is not JSON
get_username(response) ==
    IF Truthy(response) /\ response[1].status = 200
    THEN CASE response[1].body = "json name" -> "ana"
           [] response[1].body = "json no name" -> ""
           [] OTHER -> "raise"
    ELSE ""

\* what display_menu returns for the settings menu (line 653)
SettingsChoices ==
    {EnterResult(row) : row \in 0..(Len(SettingsItems) - 1)} \cup {None}

SessionInit ==
    /\ app_pc = "start"
    /\ sm_from = "run"
    /\ logged_in = FALSE
    /\ api = None
    /\ username = ""
    /\ notice = "none"
    /\ entered = None
    /\ checked = "none"
    /\ event = "none"

\* the values ACCESS_TOKEN can have after EnvironmentManager.load_env
EnvValues == {None, Some("")} \cup {Some(t) : t \in Tokens}

\* validate_and_set_token, lines 504-511, for the answers o1 and o2 to its
\* two requests; the pc is where the caller goes on when nothing is raised
validate_and_set_token(token, o1, o2, pc_ok, pc_failed) ==
    IF check_token_validity(make_request(o1))
    THEN /\ checked' = "valid"
         /\ api' = Some(token)
         /\ logged_in' = TRUE
         /\ IF get_username(make_request(o2)) = "raise"
            THEN app_pc' = "crashed" /\ UNCHANGED username
            ELSE app_pc' = pc_ok /\ username' = get_username(make_request(o2))
    ELSE /\ checked' = "invalid"
         /\ app_pc' = pc_failed
         /\ UNCHANGED <<api, logged_in, username>>

\* a variant of line 653's exit test that lets the menu be left at any time
may_leave_settings_always(li) == TRUE

\* lines 657-658 and 667-668: if self.logged_in: return
may_leave_settings(li) == li

\* where control goes when settings_menu returns to its caller: run goes
\* on to canvas_menu (lines 479-480, 513-521), canvas_menu to its loop
AfterSettings(from, has_courses) ==
    IF from = "run" /\ ~has_courses THEN "exited" ELSE "courses"

\* run, lines 474-480, up to the first menu that waits for a key
run ==
    /\ app_pc = "start"
    /\ event' = "run"
    /\ \E o1, o2 \in Outcomes(SelfBodies), has_courses \in BOOLEAN :
          IF env_token = None \/ env_token = Some("")
          THEN /\ app_pc' = "settings"
               /\ notice' = "Loading"
               /\ UNCHANGED <<logged_in, api, username, checked>>
          ELSE /\ validate_and_set_token(env_token[1], o1, o2,
                     IF has_courses THEN "courses" ELSE "exited", "settings")
               /\ notice' = (IF ~check_token_validity(make_request(o1))
                             THEN "Error"
                             ELSE IF has_courses THEN "Success" ELSE "Error")
    /\ sm_from' = "run"
    /\ UNCHANGED <<env_token, entered>>

\* settings_menu, choice 0 (lines 655-659) with save_token (lines 495-502)
SaveToken ==
    /\ app_pc = "settings"
    /\ event' = "save_token"
    /\ \E token \in Tokens, o1, o2 \in Outcomes(SelfBodies),
          has_courses \in BOOLEAN :
          /\ entered' = Some(token)
          /\ validate_and_set_token(token, o1, o2,
                AfterSettings(sm_from, has_courses),
                IF may_leave_settings(logged_in)
                THEN AfterSettings(sm_from, has_courses) ELSE "settings")
          /\ IF check_token_validity(make_request(o1))
             THEN /\ env_token' = (IF get_username(make_request(o2)) = "raise"
                                   THEN env_token ELSE Some(token))
                  /\ notice' = (IF get_username(make_request(o2)) = "raise"
                                THEN "Please Wait" ELSE "Success")
             ELSE /\ notice' = "Error"
                  /\ UNCHANGED env_token
    /\ UNCHANGED sm_from

\* settings_menu, choice 1 (lines 660-664)
ToggleFromSettings ==
    /\ app_pc = "settings"
    /\ event' = "toggle"
    /\ ToggleConfirmation
    /\ notice' = "Settings Updated"
    /\ UNCHANGED <<app_pc, sm_from, logged_in, api, username, env_token,
                   entered, checked>>

\* settings_menu, choice 2 (line 666) with logout (lines 620-625)
Logout ==
    /\ app_pc = "settings"
    /\ event' = "logout"
    /\ api' = None
    /\ logged_in' = FALSE
    /\ username' = ""
    /\ env_token' = Some("")
    /\ notice' = "Success"
    /\ UNCHANGED <<app_pc, sm_from, entered, checked>>

\* settings_menu, choice 3 or None (lines 667-672)
GoBack ==
    /\ app_pc = "settings"
    /\ event' = "go_back"
    /\ \E has_courses \in BOOLEAN :
          IF may_leave_settings(logged_in)
          THEN /\ app_pc' = AfterSettings(sm_from, has_courses)
               /\ UNCHANGED notice
          ELSE /\ notice' = "Notice"
               /\ UNCHANGED app_pc
    /\ UNCHANGED <<sm_from, logged_in, api, username, env_token, entered,
                   checked>>

\* one pass of settings_menu's loop on the choice display_menu returned
settings_menu(choice) ==
    CASE choice = Some(0) -> SaveToken /\ UNCHANGED upload_vars
      [] choice = Some(1) -> ToggleFromSettings
      [] choice = Some(2) -> Logout /\ UNCHANGED upload_vars
      [] OTHER -> GoBack /\ UNCHANGED upload_vars

\* canvas_menu's loop, lines 523-538, on the kind of value the course menu
\* returned
CourseChoice ==
    /\ app_pc = "courses"
    /\ \E choice \in {"exit", "config", "index", "None"},
          has_assignments \in BOOLEAN :
          /\ event' = choice
          /\ CASE choice = "exit" -> app_pc' = "exited" /\ UNCHANGED sm_from
               [] choice = "config" ->
                     app_pc' = "settings" /\ sm_from' = "courses"
               [] choice = "index" ->
                     /\ app_pc' = (IF has_assignments THEN "assignments"
                                   ELSE "courses")
                     /\ UNCHANGED sm_from
               [] OTHER -> UNCHANGED <<app_pc, sm_from>>
    /\ UNCHANGED <<logged_in, api, username, env_token, notice, entered,
                   checked>>

\* display_assignments' loop, lines 549-565
AssignmentChoice ==
    /\ app_pc = "assignments"
    /\ \E choice \in {"back", "assignment"} :
          /\ event' = choice
          /\ app_pc' = (IF choice = "back" THEN "courses" ELSE "details")
    /\ UNCHANGED <<sm_from, logged_in, api, username, env_token, notice,
                   entered, checked>>

\* display_assignment_details' loop, lines 581-586
DetailsChoice ==
    /\ app_pc = "details"
    /\ \E choice \in {"upload", "back"} :
          /\ event' = choice
          /\ app_pc' = (IF choice = "back" THEN "assignments" ELSE "details")
    /\ UNCHANGED <<sm_from, logged_in, api, username, env_token, notice,
                   entered, checked>>

\* ------------------------------------------------------------------------
\* CanvasApp.display_assignments
\* ------------------------------------------------------------------------
AssignmentNames == {"hw", "lab"}

\* format_due_date, lines 627-641, as the number that stands for the text:
\* 1 for "No Due Date", 2 for "Invalid Date Format", 100 + h for the local
\* time "dd/mm HH:MM" of hour h
format_due_date(due_at) ==
    CASE due_at.kind = "null" -> 1
      [] due_at.kind = "bad" -> 2
      [] OTHER -> 100 + due_at.t + USER_TIMEZONE_OFFSET

\* format_assignment_item, lines 567-569: "<name> (Due: <due date>)"
format_assignment_item(a) == <<a.name, format_due_date(a.due_at)>>

\* what get_assignments hands over: non-quiz assignments in due order, each
\* with its 'submitted' flag; ids are the positions in the list
WithIds(list) ==
    [k \in 1..Len(list) |->
        [id |-> k, name |-> list[k].name, quiz |-> FALSE,
         due_at |-> list[k].due_at, submitted |-> list[k].submitted]]

ShownAssignments ==
    {list \in {WithIds(l) :
                  l \in UNION {[1..n -> [name : AssignmentNames,
                                         due_at : {NullDue, IsoDue(MaxTime)},
                                         submitted : BOOLEAN]] :
                               n \in 0..MaxAssignments}} :
        list = sorted(list)}

\* [a for a in assignments if cond(a)]
RECURSIVE select_where(_, _)
select_where(list, want_submitted) ==
    IF Len(list) = 0 THEN <<>>
    ELSE (IF list[1].submitted = want_submitted THEN <<list[1]>> ELSE <<>>)
         \o select_where(Tail(list), want_submitted)

\* lines 550-552
menu_items(ns, s) ==
    <<Label("NOT SUBMITTED")>> \o [k \in 1..Len(ns) |-> format_assignment_item(ns[k])]
    \o <<Label("SUBMITTED")>> \o [k \in 1..Len(s) |-> format_assignment_item(s[k])]
    \o <<Label("[ Go Back ]")>>

\* list[i] in Python: negative indices count from the end; None stands for
\* an IndexError
py_index(list, i) ==
    IF i >= 0 /\ i < Len(list) THEN Some(list[i + 1])
    ELSE IF i < 0 /\ 0 - i <= Len(list) THEN Some(list[Len(list) + i + 1])
    ELSE None

\* a variant of lines 561-564 that reads the submitted list one row late
choose_assignment_late(choice, ns, s) ==
    IF choice < Len(ns) + 1
    THEN py_index(ns, choice - 1)
    ELSE py_index(s, choice - Len(ns) - 1)

\* lines 561-564
choose_assignment(choice, ns, s) ==
    IF choice < Len(ns) + 1
    THEN py_index(ns, choice - 1)
    ELSE py_index(s, choice - Len(ns) - 2)

ListInit ==
    /\ da_pc = "idle"
    /\ not_submitted = <<>>
    /\ submitted = <<>>
    /\ selected_assignment = None

\* lines 549-557: one pass of the loop up to the call of display_menu
OpenAssignmentMenu(ns, s) ==
    display_menu(menu_items(ns, s),
                 Some(AssignmentSelectable(Len(ns), Len(s))))

\* lines 540-557: display_assignments up to the first menu
display_assignments ==
    /\ da_pc = "idle"
    /\ \E assignments \in ShownAssignments :
          /\ not_submitted' = select_where(assignments, FALSE)
          /\ submitted' = select_where(assignments, TRUE)
          /\ IF Len(assignments) = 0
             THEN da_pc' = "returned" /\ UNCHANGED menu_vars
             ELSE /\ da_pc' = "menu"
                  /\ OpenAssignmentMenu(select_where(assignments, FALSE),
                                        select_where(assignments, TRUE))
    /\ UNCHANGED selected_assignment

\* lines 559-565: what is done with the value display_menu returned
AssignmentChosen ==
    /\ da_pc = "menu"
    /\ menu_pc = "returned"
    /\ IF menu_ret = None
       THEN da_pc' = "returned" /\ UNCHANGED selected_assignment
       ELSE IF py_index(items, menu_ret[1]) = Some(Label("[ Go Back ]"))
       THEN da_pc' = "returned" /\ UNCHANGED selected_assignment
       ELSE IF \/ py_index(items, menu_ret[1]) = None
               \/ choose_assignment(menu_ret[1], not_submitted, submitted) = None
       THEN da_pc' = "crashed" /\ UNCHANGED selected_assignment
       ELSE /\ da_pc' = "details"
            /\ selected_assignment' =
                  choose_assignment(menu_ret[1], not_submitted, submitted)
    /\ UNCHANGED <<not_submitted, submitted, menu_vars>>

\* display_assignment_details returns (line 565) and the loop of line 549
\* draws the list again
DetailsReturn ==
    /\ da_pc = "details"
    /\ da_pc' = "menu"
    /\ OpenAssignmentMenu(not_submitted, submitted)
    /\ UNCHANGED <<not_submitted, submitted, selected_assignment>>

vars ==
    <<menu_vars, upload_vars, assign_vars, course_vars, browser_vars,
      session_vars, list_vars>>

Init ==
    /\ MenuInit /\ UploadInit /\ AssignInit /\ CourseInit
    /\ BrowserInit /\ fs = EmptyFs
    /\ ListInit
    /\ SessionInit /\ env_token = None

\* the menus of the application
Next ==
    \/ DisplayMenuFromApp /\ UNCHANGED other_than_menu
    \/ KeyUp /\ UNCHANGED other_than_menu
    \/ KeyDown /\ UNCHANGED other_than_menu
    \/ KeyEnter /\ UNCHANGED other_than_menu
    \/ KeyEsc /\ UNCHANGED other_than_menu
    \/ KeyOther /\ UNCHANGED other_than_menu

Spec == Init /\ [][Next]_vars

\* display_menu over every list it accepts
NextAnyList ==
    \/ DisplayMenuAny /\ UNCHANGED other_than_menu
    \/ KeyUp /\ UNCHANGED other_than_menu
    \/ KeyDown /\ UNCHANGED other_than_menu
    \/ KeyEnter /\ UNCHANGED other_than_menu
    \/ KeyEsc /\ UNCHANGED other_than_menu
    \/ KeyOther /\ UNCHANGED other_than_menu

SpecAnyList == Init /\ [][NextAnyList]_vars

\* upload_file and the submission it drives
NextUpload ==
    \/ ToggleConfirmation /\ UNCHANGED other_than_upload
    \/ upload_file /\ UNCHANGED other_than_upload
    \/ FileBrowserReturn /\ UNCHANGED other_than_upload
    \/ ConfirmEnter /\ UNCHANGED other_than_upload
    \/ ConfirmEsc /\ UNCHANGED other_than_upload
    \/ ConfirmOther /\ UNCHANGED other_than_upload
    \/ Stage1 /\ UNCHANGED other_than_upload
    \/ Stage2 /\ UNCHANGED other_than_upload
    \/ Stage3 /\ UNCHANGED other_than_upload
    \/ DismissError /\ UNCHANGED other_than_upload

SpecUpload == Init /\ [][NextUpload]_vars

\* one assignment listing fetched, filtered and sorted
NextAssignments ==
    \/ get_assignments /\ UNCHANGED other_than_assign

\* the course menu
NextCourses ==
    \/ canvas_menu /\ UNCHANGED other_than_course
    \/ HKeyUp /\ UNCHANGED other_than_course
    \/ HKeyDown /\ UNCHANGED other_than_course
    \/ HKeyLeft /\ UNCHANGED other_than_course
    \/ HKeyRight /\ UNCHANGED other_than_course
    \/ HKeyEnter /\ UNCHANGED other_than_course
    \/ HKeyEsc /\ UNCHANGED other_than_course
    \/ HKeyOther /\ UNCHANGED other_than_course
    \/ SubScreenReturns /\ UNCHANGED other_than_course

SpecCourses == Init /\ [][NextCourses]_vars

\* the file browser over a filesystem that does not change meanwhile
InitBrowser ==
    /\ MenuInit /\ UploadInit /\ AssignInit /\ CourseInit
    /\ confirm_submit
    /\ BrowserInit /\ fs \in Filesystems
    /\ ListInit
    /\ SessionInit /\ env_token = None

NextBrowser ==
    \/ file_browser /\ UNCHANGED other_than_browser
    \/ BrowserUp /\ UNCHANGED other_than_browser
    \/ BrowserDown /\ UNCHANGED other_than_browser
    \/ BrowserEnter /\ UNCHANGED other_than_browser
    \/ BrowserEsc /\ UNCHANGED other_than_browser
    \/ BrowserOther /\ UNCHANGED other_than_browser

SpecBrowser == InitBrowser /\ [][NextBrowser]_vars

\* the file browser while other processes change the filesystem
NextBrowserLive ==
    \/ file_browser /\ UNCHANGED other_than_browser
    \/ BrowserUp /\ UNCHANGED other_than_browser
    \/ BrowserDown /\ UNCHANGED other_than_browser
    \/ BrowserEnter /\ UNCHANGED other_than_browser
    \/ BrowserEsc /\ UNCHANGED other_than_browser
    \/ BrowserOther /\ UNCHANGED other_than_browser
    \/ FsChange /\ UNCHANGED other_than_browser

SpecBrowserLive == InitBrowser /\ [][NextBrowserLive]_vars

\* the application from run to exit
InitSession ==
    /\ MenuInit /\ UploadInit /\ AssignInit /\ CourseInit
    /\ BrowserInit /\ fs = EmptyFs
    /\ ListInit
    /\ SessionInit /\ env_token \in EnvValues

NextSession ==
    \/ run /\ UNCHANGED other_than_session
    \/ settings_menu(Some(0)) /\ UNCHANGED other_than_session_and_settings
    \/ settings_menu(Some(1)) /\ UNCHANGED other_than_session_and_settings
    \/ settings_menu(Some(2)) /\ UNCHANGED other_than_session_and_settings
    \/ \E choice \in SettingsChoices \ {Some(0), Some(1), Some(2)} :
          settings_menu(choice) /\ UNCHANGED other_than_session_and_settings
    \/ CourseChoice /\ UNCHANGED other_than_session
    \/ AssignmentChoice /\ UNCHANGED other_than_session
    \/ DetailsChoice /\ UNCHANGED other_than_session

SpecSession == InitSession /\ [][NextSession]_vars

\* the course menu together with the menus of the screens it opens
NextMenus ==
    \/ menu_pc # "loop" /\ canvas_menu /\ UNCHANGED other_than_course
    \/ HKeyUp /\ UNCHANGED other_than_course
    \/ HKeyDown /\ UNCHANGED other_than_course
    \/ HKeyLeft /\ UNCHANGED other_than_course
    \/ HKeyRight /\ UNCHANGED other_than_course
    \/ HKeyEnter /\ UNCHANGED other_than_course
    \/ HKeyEsc /\ UNCHANGED other_than_course
    \/ HKeyOther /\ UNCHANGED other_than_course
    \/ menu_pc # "loop" /\ SubScreenReturns /\ UNCHANGED other_than_course
    \/ /\ cm_pc \in {"idle", "settings", "assignments"}
       /\ DisplayMenuFromApp /\ UNCHANGED other_than_menu
    \/ KeyUp /\ UNCHANGED other_than_menu
    \/ KeyDown /\ UNCHANGED other_than_menu
    \/ KeyEnter /\ UNCHANGED other_than_menu
    \/ KeyEsc /\ UNCHANGED other_than_menu
    \/ KeyOther /\ UNCHANGED other_than_menu

SpecMenus == Init /\ [][NextMenus]_vars

\* the assignment list of one course
NextList ==
    \/ display_assignments /\ UNCHANGED other_than_list_and_menu
    \/ (da_pc = "menu" /\ KeyUp) /\ UNCHANGED other_than_menu
    \/ (da_pc = "menu" /\ KeyDown) /\ UNCHANGED other_than_menu
    \/ (da_pc = "menu" /\ KeyEnter) /\ UNCHANGED other_than_menu
    \/ (da_pc = "menu" /\ KeyEsc) /\ UNCHANGED other_than_menu
    \/ (da_pc = "menu" /\ KeyOther) /\ UNCHANGED other_than_menu
    \/ AssignmentChosen /\ UNCHANGED other_than_list_and_menu
    \/ DetailsReturn /\ UNCHANGED other_than_list_and_menu

\* display_assignments does not read the settings
InitList == Init /\ confirm_submit

SpecList == InitList /\ [][NextList]_vars

\* get_assignments does not read the settings
InitAssignments == Init /\ confirm_submit

SpecAssignments == InitAssignments /\ [][NextAssignments]_vars

\* the same, with the progress the sequential code guarantees: each stage
\* is one blocking call with a timeout (10 s at line 26, 60 s at line 113),
\* so a stage that was entered is eventually left
SpecUploadFair ==
    /\ SpecUpload
    /\ WF_vars(Stage1 /\ UNCHANGED other_than_upload)
    /\ WF_vars(Stage2 /\ UNCHANGED other_than_upload)
    /\ WF_vars(Stage3 /\ UNCHANGED other_than_upload)

\* ========================================================================
\* Properties of UI.display_menu
\* ========================================================================
Selectable == SeqRange(selectable_indices)

IsAscending(sel) == \A j, k \in 1..Len(sel) : j < k => sel[j] < sel[k]

Greater(c, sel) == {x \in SeqRange(sel) : x > c}
Smaller(c, sel) == {x \in SeqRange(sel) : x < c}
SetMax(S) == CHOOSE m \in S : \A x \in S : x <= m

\* C1: whenever the selectable list is not empty the cursor is one of the
\* selectable indices, and the index returned on confirm is a selectable
\* index, never a separator row.
C1_CursorSelectable ==
    (menu_pc # "idle" /\ Selectable # {}) =>
        /\ current_row \in Selectable
        /\ (menu_pc = "returned" /\ menu_ret # None) => menu_ret[1] \in Selectable

\* a confirm after the cursor moved, in a menu that has a separator row
C1_Witness ==
    /\ menu_pc = "returned"
    /\ key = "ENTER"
    /\ menu_ret = Some(current_row)
    /\ current_row # InitialRow(selectable_indices)
    /\ \E r \in 0..(Len(items) - 1) : r \notin Selectable

\* C2 as stated: a move down lands on the nearest selectable index greater
\* than the cursor, for every list display_menu accepts, and is a no-op
\* when no selectable index is greater.
C2_Original ==
    [][(menu_pc = "loop" /\ key' = "KEY_DOWN") =>
          current_row' = (IF Greater(current_row, selectable_indices) = {}
                          THEN current_row
                          ELSE SetMin(Greater(current_row, selectable_indices)))
      ]_vars

\* C2 amended: a move down lands on the first entry, in list order, that is
\* greater than the cursor; that entry is the nearest greater index whenever
\* the list is ascending; with no greater entry the cursor stays (no wrap).
C2_MoveDown ==
    [][(menu_pc = "loop" /\ key' = "KEY_DOWN") =>
          LET sel == selectable_indices
              g == Greater(current_row, sel)
          IN  /\ g = {} => current_row' = current_row
              /\ g # {} =>
                    /\ \E k \in 1..Len(sel) :
                          /\ sel[k] = current_row'
                          /\ sel[k] > current_row
                          /\ \A j \in 1..(k - 1) : sel[j] <= current_row
                    /\ IsAscending(sel) => current_row' = SetMin(g)
      ]_vars

\* a move down that took the cursor off the first row of a list that is
\* not in ascending order
C2_Witness ==
    /\ menu_pc = "loop"
    /\ key = "KEY_DOWN"
    /\ ~IsAscending(selectable_indices)
    /\ current_row # InitialRow(selectable_indices)

C4_Original ==
    /\ (menu_pc = "loop" /\ key = "none" /\ Selectable # {}) =>
          current_row = SetMin(Selectable)
    /\ (menu_pc = "returned" /\ Selectable = {}) => menu_ret = None

\* C5: Enter ends the session at once and returns exactly the cursor held
\* at that moment; ESC ends it and returns None wherever the cursor is.
C5_ConfirmCancel ==
    [][/\ (menu_pc = "loop" /\ key' = "ENTER") =>
              (menu_pc' = "returned" /\ menu_ret' = Some(current_row))
       /\ (menu_pc = "loop" /\ key' = "ESC") =>
              (menu_pc' = "returned" /\ menu_ret' = None)
      ]_vars

\* a confirm on a row other than the first, and nothing else since
C5_Witness ==
    /\ menu_pc = "returned"
    /\ key = "ENTER"
    /\ current_row > 0
    /\ menu_ret = Some(current_row)
    /\ current_row \in Selectable

\* ========================================================================
\* Properties of CanvasAPI.submit_file_assignment and CanvasApp.upload_file
\* ========================================================================
Returned == result # None
Success == result # None /\ result[1].success
Failure == result # None /\ ~result[1].success
Message == result[1].message

StagesRequested == {requests[k].stage : k \in 1..Len(requests)}

TicketTags == {"Failed to get upload URL", "Upload URL not found in response"}
UploadTags == {"File upload failed", "File ID not found in upload response"}
RegisterTag == "Assignment submission failed"

Answered(r) == r # None /\ r[1].kind = "response"

\* the stage-1 request failed, got a status other than 200, or got a JSON
\* body without an upload URL
TicketStageFailed ==
    /\ resp1 # None
    /\ \/ resp1[1].kind = "exception"
       \/ resp1[1].status # 200
       \/ resp1[1].body = "json no upload_url"

\* the upload was answered with a status other than 201, or with 201 and a
\* JSON body without a file id
UploadStageFailed ==
    /\ Answered(resp2)
    /\ \/ resp2[1].status # 201
       \/ resp2[1].body = "json no id"

\* C6: when stage 1 fails, answers with a non-success status or carries no
\* upload URL, the invocation returns a ticket-stage failure and issues no
\* stage-2 and no stage-3 request; nor does it after an unreadable answer.
C6_TicketFailureStops ==
    /\ TicketStageFailed =>
          /\ Failure
          /\ Message.tag \in TicketTags
          /\ StagesRequested = {1}
          /\ resp2 = None /\ resp3 = None
          /\ up_pc \in {"error", "done"}
    /\ (resp1 # None /\ resp1[1] # Response(200, "json upload_url")) =>
          (Failure /\ StagesRequested = {1})

\* a 200 answer whose JSON body has no upload URL
C6_Witness ==
    /\ resp1 = Some(Response(200, "json no upload_url"))
    /\ Failure
    /\ Message.tag = "Upload URL not found in response"
    /\ Len(requests) = 1

\* C7: when the upload is answered with a status other than 201, or with
\* 201 but no file id, the invocation returns an upload-stage failure and
\* the stage-3 registration request is never issued.
C7_UploadFailureStops ==
    /\ UploadStageFailed =>
          /\ Failure
          /\ Message.tag \in UploadTags
          /\ 3 \notin StagesRequested
          /\ resp3 = None
          /\ up_pc \in {"error", "done"}
    /\ (resp2 # None /\ resp2[1] # Response(201, "json id")) =>
          (Failure /\ 3 \notin StagesRequested)

\* the upload was answered 200 (not created) with a file id in the body
C7_Witness ==
    /\ resp2 = Some(Response(200, "json id"))
    /\ Failure
    /\ Message.tag = "File upload failed"
    /\ Len(requests) = 2

AllThreeSucceeded ==
    /\ resp1 = Some(Response(200, "json upload_url"))
    /\ resp2 = Some(Response(201, "json id"))
    /\ Answered(resp3) /\ resp3[1].status = 201

\* C8: success is returned exactly when the ticket request got 200 with an
\* upload URL, the upload got 201 with a file id and the registration got
\* 201, in that order; otherwise the result is a failure whose message is
\* not the success message, and a registration that is not created is
\* reported as a failed assignment submission.
C8_SuccessIffAllStages ==
    /\ Returned => (Success <=> AllThreeSucceeded)
    /\ AllThreeSucceeded => Success
    /\ Success => (Message = SuccessMessage
                   /\ [k \in 1..Len(requests) |-> requests[k].stage] = <<1, 2, 3>>)
    /\ Failure => Message.tag # SuccessMessage.tag
    /\ (resp3 # None /\ ~(Answered(resp3) /\ resp3[1].status = 201)) =>
          (Failure /\ Message.tag = RegisterTag)

\* all three requests were issued and the workflow returned success
C8_Witness ==
    /\ Success
    /\ Len(requests) = 3
    /\ AllThreeSucceeded
    /\ up_pc = "done"

\* C9 as stated: when the server answers stage 1 (or stage 3) with an error
\* status and a body, the failure detail carries that status and that body.
C9_Original ==
    /\ (Returned /\ Answered(resp1) /\ resp1[1].status >= 400) =>
          (Message.status = StatusText(resp1[1].status)
           /\ Message.response = resp1[1].body)
    /\ (Returned /\ Answered(resp3) /\ resp3[1].status # 201) =>
          (Message.status = StatusText(resp3[1].status)
           /\ Message.response = resp3[1].body)

\* C10: with confirm_submit false, choosing a file leads straight to the
\* stage-1 step: confirm_dialog is not shown, and the first request of the
\* invocation is the stage-1 request, issued with no prompt before it.
C10_NoPromptWhenDisabled ==
    [][/\ (up_pc = "browser" /\ ~confirm_submit /\ file_path' # None) =>
              (up_pc' = "stage1" /\ ~prompted' /\ shown' # "Confirm")
       /\ (~confirm_submit /\ Len(requests) = 0 /\ Len(requests') > 0) =>
              (~prompted /\ requests'[1].stage = 1 /\ up_pc = "stage1")
      ]_vars

\* a request went out for a chosen file with the prompt disabled
C10_Witness ==
    /\ ~confirm_submit
    /\ file_path # None
    /\ ~prompted
    /\ Len(requests) >= 1
    /\ requests[1] = ApiRequest(1)

InStage == up_pc \in {"stage1", "stage2", "stage3"}

\* C11: with confirm_submit true no request of any stage goes out unless
\* the prompt was shown and accepted with Enter; declining the prompt, or
\* cancelling the file browser, ends the attempt with no request sent and
\* no result, and never with the error screen.
C11_NoRequestWithoutAccept ==
    [][/\ (confirm_submit /\ Len(requests') > Len(requests)) =>
              (prompted /\ dialog_key = "ENTER")
       /\ (confirm_submit /\ ~InStage /\ InStage') =>
              (up_pc = "confirm" /\ prompted /\ dialog_key' = "ENTER")
       /\ (up_pc = "confirm" /\ dialog_key' = "ESC") =>
              (up_pc' = "done" /\ shown' = "Notice"
               /\ requests' = <<>> /\ result' = None)
       /\ (up_pc = "browser" /\ up_pc' # "browser" /\ file_path' = None) =>
              (up_pc' = "done" /\ shown' # "Error"
               /\ requests' = <<>> /\ result' = None)
      ]_vars

\* the prompt was declined: the attempt is over and nothing was sent
C11_Witness ==
    /\ confirm_submit
    /\ prompted
    /\ dialog_key = "ESC"
    /\ up_pc = "done"
    /\ shown = "Notice"
    /\ requests = <<>>
    /\ result = None

StageList == [k \in 1..Len(requests) |-> requests[k].stage]

\* C12: in one invocation each of the three requests goes out at most
\* once and in order; once a result is returned it is the result of the
\* invocation and no further request follows it; a new attempt starts with
\* an empty request log and its first request is the stage-1 request.
C12_NoRetry ==
    /\ [](StageList = SubSeq(<<1, 2, 3>>, 1, Len(requests)))
    /\ [](Failure => up_pc \in {"error", "done"})
    /\ [][/\ (Returned /\ up_pc' # "browser") =>
                 (result' = result /\ requests' = requests)
          /\ (up_pc # "browser" /\ up_pc' = "browser") =>
                 (requests' = <<>> /\ result' = None)
          /\ (Len(requests) = 0 /\ Len(requests') > 0) =>
                 requests' = <<ApiRequest(1)>>
         ]_vars

\* a second attempt that sent a new stage-1 request and failed at stage 2
C12_Witness ==
    /\ attempts >= 2
    /\ Failure
    /\ StageList = <<1, 2>>
    /\ Message.tag \in UploadTags

\* C13: the stage-1 and stage-3 requests go through the API session with
\* the bearer header; the stage-2 upload goes to the ticket's upload URL
\* with the ticket's parameters, without the header and outside the session.
C13_OnlyUploadUnauthenticated ==
    \A k \in 1..Len(requests) :
        LET r == requests[k] IN
        /\ r.auth <=> r.stage # 2
        /\ r.stage \in {1, 3} => (r.via = "session" /\ r.target = "API_BASE_URL")
        /\ r.stage = 2 => (r.via = "requests.post" /\ r.target = "upload_url"
                           /\ r.payload = "upload_params")

\* all three requests of a submission were sent
C13_Witness ==
    /\ Len(requests) = 3
    /\ requests[2] = UploadRequest
    /\ requests[1].auth /\ requests[3].auth

UploadPositions ==
    {"idle", "browser", "confirm", "stage1", "stage2", "stage3", "error", "done"}

AnyRaised ==
    \/ resp1 # None /\ resp1[1].kind = "exception"
    \/ resp2 # None /\ resp2[1].kind = "exception"
    \/ resp3 # None /\ resp3[1].kind = "exception"

\* C14: every invocation ends by returning a (success, message) result,
\* whatever each collaborator does: a stage that was entered leads to a
\* returned result, a timeout or transport exception in any stage gives a
\* returned failure, and no exception leaves the workflow.
C14_AlwaysReturns ==
    /\ [](up_pc \in UploadPositions)
    /\ [](AnyRaised => Failure)
    /\ [](up_pc = "error" => Failure)
    /\ (InStage ~> (Returned /\ up_pc \in {"error", "done"}))

\* the upload timed out and the workflow returned a failure for it
C14_Witness ==
    /\ resp2 = Some(Raised)
    /\ Failure
    /\ Message = ErrorMessage("timeout")
    /\ up_pc = "error"

\* ========================================================================
\* Properties of CanvasAPI.get_assignments
\* ========================================================================
Listed == IF ga_listing = None THEN <<>> ELSE ga_listing[1]

NowInstant == Instant(current_time)

\* dated: the assignment carries a due date that reads as an instant; null,
\* '' and strings that are no "%Y-%m-%dT%H:%M:%SZ" date count as no due date
Dated(a) == a.due_at.kind = "iso"

\* what the listing should contribute: not a quiz, and no due date or one
\* strictly after now
Wanted(a) == ~a.quiz /\ (~Dated(a) \/ a.due_at.t > NowInstant)

Ids(list) == {list[k].id : k \in 1..Len(list)}

\* the example of the specification at now = 1: no due date, a day before,
\* a day after, and a quiz due a day after
ExampleListing ==
    <<Assignment(1, FALSE, NullDue), Assignment(2, FALSE, IsoDue(0)),
      Assignment(3, FALSE, IsoDue(2)), Assignment(4, TRUE, IsoDue(2))>>

\* C15: get_assignments returns exactly the listed assignments that are no
\* quiz and have no due date or a due date strictly after now (one due
\* exactly now is left out), each once, ascending by due date with the
\* undated ones after all dated ones; the example listing gives
\* [due after, no due date].
C15_FilterAndSort ==
    ga_pc = "returned" =>
        /\ Ids(ga_ret) = {Listed[k].id : k \in {j \in 1..Len(Listed) : Wanted(Listed[j])}}
        /\ Len(ga_ret) = Cardinality(Ids(ga_ret))
        /\ \A k \in 1..Len(ga_ret) :
              \E j \in 1..Len(Listed) :
                 /\ Listed[j].id = ga_ret[k].id
                 /\ Listed[j].due_at = ga_ret[k].due_at
                 /\ Listed[j].quiz = ga_ret[k].quiz
        /\ \A i, j \in 1..Len(ga_ret) :
              i < j =>
                 /\ ~Dated(ga_ret[i]) => ~Dated(ga_ret[j])
                 /\ (Dated(ga_ret[i]) /\ Dated(ga_ret[j])) =>
                       ga_ret[i].due_at.t <= ga_ret[j].due_at.t
        /\ \A k \in 1..Len(ga_ret) :
              Dated(ga_ret[k]) => ga_ret[k].due_at.t # NowInstant
        /\ [k \in 1..2 |-> get_assignments_result(
                               Some(ExampleListing), Some({}), NowAt(1))[k].id]
              = <<3, 1>>
        /\ Len(get_assignments_result(Some(ExampleListing), Some({}), NowAt(1))) = 2

\* a listing of an undated assignment, one due exactly now and one due
\* later, returned as [the later one, the undated one]
C15_Witness ==
    /\ ga_pc = "returned"
    /\ Len(Listed) = 3
    /\ ~Dated(Listed[1]) /\ ~Listed[1].quiz
    /\ Dated(Listed[2]) /\ Listed[2].due_at.t = NowInstant /\ ~Listed[2].quiz
    /\ Dated(Listed[3]) /\ Listed[3].due_at.t > NowInstant /\ ~Listed[3].quiz
    /\ Len(ga_ret) = 2
    /\ ga_ret[1].id = 3
    /\ ga_ret[2].id = 1

\* ========================================================================
\* Properties of the course menu (display_menu_with_horizontal_options and
\* CanvasApp.canvas_menu)
\* ========================================================================
OnActionRow == h_row = courses
ExitName == <<"e", "x", "i", "t">>
ConfigName == <<"c", "o", "n", "f", "i", "g">>

\* C16 as stated: confirming the Exit action ends the session, and so does
\* an ESC at the course menu: after either, canvas_menu has returned.
C16_Original ==
    [][/\ (cm_pc = "menu" /\ h_key' = "ENTER" /\ OnActionRow /\ h_col = 0) =>
              cm_pc' = "returned"
       /\ (cm_pc = "menu" /\ h_key' = "ESC") => cm_pc' = "returned"
      ]_vars

\* C17: a confirm on the action row returns the name of the selected
\* action ("exit" for "[ Exit ]", "config" for "[ Config ]") and never an
\* index; a confirm on a list item returns that item's index in
\* 0..len(items)-1 and never a name; ESC returns None.
C17_ThreeOutcomes ==
    [][/\ (cm_pc = "menu" /\ h_key' = "ENTER" /\ OnActionRow) =>
              /\ h_ret'.kind = "str"
              /\ h_col = 0 => h_ret' = NameChoice(ExitName)
              /\ h_col = 1 => h_ret' = NameChoice(ConfigName)
              /\ h_ret'.name \in {ExitName, ConfigName}
       /\ (cm_pc = "menu" /\ h_key' = "ENTER" /\ ~OnActionRow) =>
              /\ h_ret' = IndexChoice(h_row)
              /\ h_row \in 0..(courses - 1)
       /\ (cm_pc = "menu" /\ h_key' = "ESC") => h_ret' = NoChoice
      ]_vars

\* the Config action was confirmed and canvas_menu opened the settings
C17_Witness ==
    /\ h_key = "ENTER"
    /\ h_ret = NameChoice(ConfigName)
    /\ h_row = courses
    /\ h_col = 1
    /\ cm_pc = "settings"

\* C18 as stated: left and right change the selected action only on the
\* action row and keep it within the options; on a list item they change
\* nothing of the menu state.
C18_Original ==
    [][(cm_pc = "menu" /\ h_key' \in {"KEY_LEFT", "KEY_RIGHT"}) =>
          /\ h_row' = h_row
          /\ h_col' \in 0..(Len(horizontal_options) - 1)
          /\ ~OnActionRow => h_col' = h_col
      ]_vars

\* C19: the vertical cursor stays within 0..len(items), the last value
\* being the action row; down moves one row towards the action row and
\* stops there, up moves one row towards the first item and stops there,
\* and neither changes the selected action.
C19_VerticalRange ==
    /\ [](cm_pc = "menu" => h_row \in 0..courses)
    /\ [][/\ (cm_pc = "menu" /\ h_key' = "KEY_DOWN") =>
                 /\ h_row = courses - 1 => h_row' = courses
                 /\ h_row = courses => h_row' = courses
                 /\ h_row < courses => h_row' = h_row + 1
                 /\ h_col' = h_col
          /\ (cm_pc = "menu" /\ h_key' = "KEY_UP") =>
                 /\ h_row = courses => h_row' = courses - 1
                 /\ h_row = 0 => h_row' = 0
                 /\ h_row > 0 => h_row' = h_row - 1
                 /\ h_col' = h_col
         ]_vars

\* the cursor went down onto the action row with the second action selected
C19_Witness ==
    /\ cm_pc = "menu"
    /\ h_key = "KEY_DOWN"
    /\ courses >= 2
    /\ h_row = courses
    /\ h_col = 1

\* ========================================================================
\* Properties of UI.file_browser
\* ========================================================================
EntryPath(k) == join(current_path, fb_items[k])
Selected == fb_items[current_selection + 1]
SelectedPath == join(current_path, Selected)

\* C20: the listing is '..' first, then the directories in lexicographic
\* order, then the files in lexicographic order; Enter on '..' moves to the
\* parent and resets the cursor, Enter on a directory enters it and resets
\* the cursor, Enter on a file returns the current directory joined with
\* the file name, ESC returns None, and up/down leave the directory alone.
C20_BrowserNavigation ==
    /\ [](fb_pc = "loop" =>
            /\ Len(fb_items) >= 1
            /\ fb_items[1] = DotDot
            /\ {fb_items[k] : k \in 2..Len(fb_items)} =
                  {n \in Names : isdir(fs, join(current_path, n))
                                 \/ isfile(fs, join(current_path, n))}
            /\ \A i, j \in 2..Len(fb_items) :
                  i < j =>
                     /\ isfile(fs, EntryPath(i)) => isfile(fs, EntryPath(j))
                     /\ (isdir(fs, EntryPath(i)) <=> isdir(fs, EntryPath(j)))
                           => fb_items[i] < fb_items[j])
    /\ [][/\ (fb_pc = "loop" /\ fb_key' = "ENTER" /\ current_selection = 0) =>
                 /\ current_path' = (IF current_path = <<>> THEN <<>>
                                     ELSE SubSeq(current_path, 1,
                                                 Len(current_path) - 1))
                 /\ current_selection' = 0
                 /\ fb_pc' = "loop"
          /\ (fb_pc = "loop" /\ fb_key' = "ENTER" /\ current_selection > 0
              /\ isdir(fs, SelectedPath)) =>
                 /\ current_path' = current_path \o <<Selected>>
                 /\ current_selection' = 0
                 /\ fb_pc' = "loop"
          /\ (fb_pc = "loop" /\ fb_key' = "ENTER" /\ current_selection > 0
              /\ isfile(fs, SelectedPath)) =>
                 /\ fb_pc' = "returned"
                 /\ fb_ret' = Some(current_path \o <<Selected>>)
          /\ (fb_pc = "loop" /\ fb_key' = "ESC") =>
                 (fb_pc' = "returned" /\ fb_ret' = None)
          /\ (fb_pc = "loop" /\ fb_key' \in {"KEY_UP", "KEY_DOWN"}) =>
                 (current_path' = current_path /\ fb_pc' = "loop")
         ]_vars

\* a file was returned from a directory that is listed before a file with
\* a smaller name
C20_Witness ==
    /\ fb_pc = "returned"
    /\ fb_key = "ENTER"
    /\ fb_ret # None
    /\ Len(fb_ret[1]) = 2
    /\ current_path = <<fb_ret[1][1]>>
    /\ \E n \in Names : n < fb_ret[1][1] /\ isfile(fs, <<n>>)

\* ========================================================================
\* Properties of CanvasApp: the token and the settings menu
\* ========================================================================
\* this step ran check_token_validity (run skips it without a saved token)
TokenChecked ==
    \/ event' = "save_token"
    \/ event' = "run" /\ env_token # None /\ env_token # Some("")

Running(pc) == pc \notin {"exited", "crashed"}

\* C21 (as stated): whenever a token check fails, at startup or from Save
\* Token, the application is logged out afterwards, the session goes on and
\* an error message was shown.
C21_Original ==
    [][(TokenChecked /\ checked' = "invalid") =>
          /\ ~logged_in'
          /\ Running(app_pc')
          /\ notice' = "Error"]_vars

\* C23 (as stated): after Save Token the settings menu returns only when
\* the token just entered was validated and is the one logged in with, and
\* a token that fails validation leaves the settings menu open, whatever
\* the login state was before.
C23_Original ==
    [][(app_pc = "settings" /\ event' = "save_token") =>
          /\ app_pc' \in {"courses", "exited"} =>
                (checked' = "valid" /\ logged_in' /\ api' = entered')
          /\ checked' = "invalid" => app_pc' = "settings"]_vars

\* C24: logged_in is true exactly when an API client is set; Go Back or
\* cancel leaves the settings menu only while logged in; the course menu,
\* the assignment list and the submission workflow are only reached while
\* logged in with an API client.
C24_LoggedInIffApi ==
    /\ [](logged_in <=> api # None)
    /\ [](app_pc \in {"courses", "assignments", "details"} =>
             (logged_in /\ api # None))
    /\ [][(app_pc = "settings" /\ event' = "go_back"
           /\ app_pc' # "settings") => (logged_in /\ logged_in')]_vars

\* Go Back was refused in a settings menu opened from the course menu,
\* after a logout
C24_Witness ==
    /\ app_pc = "settings"
    /\ sm_from = "courses"
    /\ event = "go_back"
    /\ notice = "Notice"
    /\ ~logged_in
    /\ env_token = Some("")

\* ========================================================================
\* Properties of the redraw
\* ========================================================================
\* what display_menu draws (line 217) and what the course menu draws
\* (lines 309-310) in the current state
MenuScreen == draw_menu_items(items, current_row, selectable_indices)
CourseScreen ==
    <<draw_menu_items([k \in 1..courses |-> k], h_row, range(0, courses)),
      draw_horizontal_options(horizontal_options, h_row, h_col, courses)>>

HighlightedRows(screen) == {idx \in DOMAIN screen : screen[idx] = "highlight"}

\* C22: a key that is not a movement, confirm or cancel key leaves the menu
\* state (cursor, selected action, items) as it was and the menu open, in
\* display_menu and in the menu with horizontal options, so the next redraw
\* is identical; what is highlighted is the cursor position of the current
\* state and nothing else.
C22_RedrawIdempotent ==
    /\ [][/\ (menu_pc = "loop" /\ key' = "other") =>
                /\ menu_pc' = "loop"
                /\ current_row' = current_row
                /\ items' = items
                /\ selectable_indices' = selectable_indices
                /\ MenuScreen' = MenuScreen
          /\ (cm_pc = "menu" /\ h_key' = "other") =>
                /\ cm_pc' = "menu"
                /\ h_row' = h_row
                /\ h_col' = h_col
                /\ courses' = courses
                /\ CourseScreen' = CourseScreen]_vars
    /\ [](menu_pc = "loop" => HighlightedRows(MenuScreen) = {current_row})
    /\ [](cm_pc = "menu" =>
            /\ HighlightedRows(CourseScreen[1]) = {h_row} \cap 0..(courses - 1)
            /\ HighlightedRows(CourseScreen[2]) =
                  (IF h_row = courses THEN {h_col} ELSE {}))

\* an unhandled key arrived in an assignment-screen menu after the cursor
\* had moved
C22_Witness ==
    /\ cm_pc = "assignments"
    /\ menu_pc = "loop"
    /\ key = "other"
    /\ current_row # InitialRow(selectable_indices)
    /\ h_key = "ENTER"

\* ========================================================================
\* Properties of CanvasApp.display_assignments
\* ========================================================================
SectionHeaders == {Label("NOT SUBMITTED"), Label("SUBMITTED")}
ListOpen == da_pc = "menu" /\ menu_pc \in {"loop", "returned"}
ChosenRow == menu_ret[1]
Chosen == selected_assignment[1]
SectionOf(a) == IF a.submitted THEN submitted ELSE not_submitted
HeaderRowOf(a) == IF a.submitted THEN Len(not_submitted) + 1 ELSE 0

\* C25: for every split of the assignments into not-submitted and
\* submitted, the selectable rows are exactly the assignment rows and the
\* final Go Back row, a section header is never returned, and a returned
\* row other than Go Back is mapped to the assignment shown on that row:
\* same label, same section, same position within the section.
C25_RowToAssignment ==
    /\ ListOpen =>
          /\ items[Len(items)] = Label("[ Go Back ]")
          /\ Len(items) = Len(not_submitted) + Len(submitted) + 3
          /\ SeqRange(selectable_indices) =
                {row \in 0..(Len(items) - 1) : items[row + 1] \notin SectionHeaders}
    /\ (ListOpen /\ menu_ret # None) =>
          /\ ChosenRow \in 0..(Len(items) - 1)
          /\ items[ChosenRow + 1] \notin SectionHeaders
    /\ da_pc # "crashed"
    /\ da_pc = "details" =>
          /\ selected_assignment # None
          /\ items[ChosenRow + 1] # Label("[ Go Back ]")
          /\ format_assignment_item(Chosen) = items[ChosenRow + 1]
          /\ Chosen \in SeqRange(SectionOf(Chosen))
          /\ ChosenRow - HeaderRowOf(Chosen) =
                1 + Cardinality({k \in 1..Len(SectionOf(Chosen)) :
                                    SectionOf(Chosen)[k].id < Chosen.id})

\* the second submitted assignment was opened from a list that also has an
\* assignment not submitted, and its neighbour carries the same label
C25_Witness ==
    /\ da_pc = "details"
    /\ Len(not_submitted) >= 1
    /\ Len(submitted) >= 2
    /\ selected_assignment = Some(submitted[2])
    /\ format_assignment_item(submitted[1]) = format_assignment_item(submitted[2])

\* ========================================================================
\* Properties of UI.file_browser under a changing filesystem
\* ========================================================================
\* C26 (as stated): at every redraw and key event the cursor is a valid
\* index into the listing computed for that redraw, whatever happens to the
\* directory between redraws, so a confirm never indexes outside the
\* listing.
C26_Original ==
    /\ fb_pc = "loop" =>
          (0 <= current_selection /\ current_selection < Len(fb_items))
    /\ fb_pc # "raised"

====
